---- MODULE Spec2Model ----
(***************************************************************************)
(* Model of moku-mcp: the MokuMCPServer ownership session (server.py), the  *)
(* device cache helpers (utils.py) and the tool dispatch (tools.py).        *)
(*                                                                          *)
(* Python values are modelled as follows.  A string is a sequence of        *)
(* one-character strings, so that the character tests of the code are       *)
(* computed.  An Optional value is None (the empty sequence) or the value   *)
(* itself (strings, which are never empty here) or a one-element sequence   *)
(* holding it (handles, configs).  A dict result is a record with exactly   *)
(* the keys the code puts in it.  Each call made on the device SDK is       *)
(* appended to hwlog, with ok = FALSE when the call raised.                 *)
(***************************************************************************)
EXTENDS Integers, Sequences, FiniteSets, TLC

VARIABLES
    _instance,          \* MokuMCPServer._instance: 0 (None) or the id of the singleton
    created,            \* number of MokuMCPServer objects constructed so far
    moku_instance,      \* self.moku_instance of the singleton: None or <<handle>>
    connected_device,   \* self.connected_device: None or an address string
    last_config,        \* self.last_config: None or <<config>>
    registry,           \* the device cache file: sequence of device records
    call,               \* the operation performed last, with its arguments
    result,             \* the dict it returned
    hwlog,              \* the device SDK calls it made, in order
    pre,                \* the session of the singleton when it was called
    input_config,       \* the config_dict under deployment (SpecDeploy)
    with_session,       \* the MokuSession object of an async-with block: where the
                        \* block is, and whether self.server is set
    pending             \* the tool invocations suspended at an await, in the
                        \* order in which they were suspended

vars == <<_instance, created, moku_instance, connected_device, last_config,
          registry, call, result, hwlog, pre, input_config, with_session, pending>>

-----------------------------------------------------------------------------
(* Bounds *)

MaxDevices == 1
MaxDirect == 1
MaxSlotNum == 2
MaxEdges == 2
MaxTime == 2
MaxPending == 2

-----------------------------------------------------------------------------
(* Python helpers *)

None == <<>>

Digits == {"0", "1", "2", "3", "4", "5", "6", "7", "8", "9"}

\* "ch in s"
Contains(s, ch) == \E i \in 1..Len(s) : s[i] = ch

\* s.replace(ch, "")
Remove(s, ch) == SelectSeq(s, LAMBDA c : c # ch)

\* s.isdigit(): false for the empty string
IsDigit(s) == Len(s) > 0 /\ \A i \in 1..Len(s) : s[i] \in Digits

Range(s) == {s[i] : i \in 1..Len(s)}

NoDup(s) == \A i, j \in 1..Len(s) : i # j => s[i] # s[j]

SeqsUpTo(S, n) == UNION {[1..k -> S] : k \in 0..n}

-----------------------------------------------------------------------------
(* The devices on the network and the identifiers a caller may pass *)

Devices == 1..MaxDevices

DigitChar(d) == <<"0", "1", "2", "3", "4", "5", "6", "7", "8", "9">>[d + 1]

IpOf(d) == <<"1", ".", DigitChar(d)>>
NameOf(d) == <<"m", DigitChar(d)>>
SerialOf(d) == <<"s", DigitChar(d)>>

Ips == {IpOf(d) : d \in Devices}

DeviceIds ==
    Ips \cup {NameOf(d) : d \in Devices} \cup {SerialOf(d) : d \in Devices}
        \cup {<<"x">>, <<"1", ":", "1">>, <<"m", ".", "1">>, <<"1", ".", "1", ":", "8">>}

Unknown == <<"U", "n", "k", "n", "o", "w", "n">>

\* what name() and serial_number() answer on a connection to this address
NameAt(ip) == IF \E d \in Devices : IpOf(d) = ip
              THEN NameOf(CHOOSE d \in Devices : IpOf(d) = ip) ELSE <<"m", "0">>
SerialAt(ip) == IF \E d \in Devices : IpOf(d) = ip
                THEN SerialOf(CHOOSE d \in Devices : IpOf(d) = ip) ELSE <<"s", "0">>

-----------------------------------------------------------------------------
(* utils.py: the device cache *)

\* MokuDeviceInfo; last_seen is the reading of the clock, a number
DeviceRecord(ip, name, serial, last_seen) ==
    [ip |-> ip, canonical_name |-> name, serial_number |-> serial, last_seen |-> last_seen]

\* MokuDeviceCache.find_by_ip: index of the record with this ip, 0 if none
find_by_ip(cache, ip) ==
    IF \E i \in 1..Len(cache) : cache[i].ip = ip
    THEN CHOOSE i \in 1..Len(cache) :
            /\ cache[i].ip = ip
            /\ \A j \in 1..(i - 1) : cache[j].ip # ip
    ELSE 0

Matches(rec, token) ==
    rec.canonical_name = token \/ rec.serial_number = token

\* MokuDeviceCache.find_by_identifier: first record whose name or serial is
\* the token, 0 if none
find_by_identifier(cache, token) ==
    IF \E i \in 1..Len(cache) : Matches(cache[i], token)
    THEN CHOOSE i \in 1..Len(cache) :
            /\ Matches(cache[i], token)
            /\ \A j \in 1..(i - 1) : ~Matches(cache[j], token)
    ELSE 0

\* the address test of resolve_device_identifier
IsAddressLiteral(device_id) ==
    Contains(device_id, ".") /\ IsDigit(Remove(Remove(device_id, "."), ":"))

\* mutant: any token with a dot in it passes for an address
resolve_device_identifier_any_dot(cache, device_id) ==
    IF Contains(device_id, ".")
    THEN device_id
    ELSE LET i == find_by_identifier(cache, device_id)
         IN  IF i # 0 THEN cache[i].ip ELSE None

resolve_device_identifier(cache, device_id) ==
    IF IsAddressLiteral(device_id)
    THEN device_id
    ELSE LET i == find_by_identifier(cache, device_id)
         IN  IF i # 0 THEN cache[i].ip ELSE None

\* mutant: a record is appended without looking for the address first
update_cache_with_device_appends(cache, ip, name, serial, now) ==
    Append(cache, DeviceRecord(ip, name, serial, now))

\* now: the reading of the clock during the call
update_cache_with_device(cache, ip, name, serial, now) ==
    LET i == find_by_ip(cache, ip)
        base == IF i = 0 THEN Append(cache, DeviceRecord(ip, None, None, now)) ELSE cache
        k == IF i = 0 THEN Len(base) ELSE i
    IN  [base EXCEPT ![k] =
            [@ EXCEPT !.last_seen = now,
                      !.canonical_name = IF name # None THEN name ELSE @,
                      !.serial_number = IF serial # None THEN serial ELSE @]]

-----------------------------------------------------------------------------
(* server.py: the session of the singleton *)

\* the MultiInstrument object a successful connect returns
Handle(ip, force) == [ip |-> ip]

Session(mi, cd, lc) == [moku_instance |-> mi, connected_device |-> cd, last_config |-> lc]

\* what a handler hands back: the session after it, its result, its SDK calls
Outcome(s, res, log) == [session |-> s, result |-> res, hwlog |-> log]

\* a handler that does not return: the exception it lets through, by message
Raised(s, message, log) == [session |-> s, raised |-> message, hwlog |-> log]

\* mutant: the error result without the recovery suggestion
NotConnectedError_bare ==
    [status |-> "error", message |-> "Not connected to any device"]

NotConnectedError ==
    [status |-> "error",
     message |-> "Not connected to any device",
     suggestion |-> "Call attach_moku first"]

ConnectOutcomes == {"ok", "ConnectionError", "Exception"}

\* the fallback test of attach_moku for an unresolved identifier
IsDottedDigits(device_id) ==
    Contains(device_id, ".") /\ IsDigit(Remove(device_id, "."))

\* mutant: the target is recorded before the connect is attempted, and the
\* ConnectionError handler leaves it set
attach_connect_target_first(s, cache, ip, force, outcome) ==
    LET log(ok) == <<[call |-> "MultiInstrument", ip |-> ip, force_connect |-> force, ok |-> ok]>>
    IN  CASE outcome = "ok" ->
                Outcome([s EXCEPT !.moku_instance = <<Handle(ip, force)>>,
                                  !.connected_device = ip],
                        [status |-> "connected",
                         device |-> [ip |-> ip, name |-> Unknown, serial |-> Unknown,
                                     platform |-> "Moku:Go"]],
                        log(TRUE))
          [] outcome = "ConnectionError" ->
                Outcome([s EXCEPT !.connected_device = ip],
                        [status |-> "error",
                         message |-> "Could not connect",
                         suggestion |-> "Try with force=True",
                         details |-> "ConnectionError"],
                        log(FALSE))
          [] OTHER ->
                Outcome([s EXCEPT !.moku_instance = None, !.connected_device = None],
                        [status |-> "error",
                         message |-> "Failed to connect",
                         details |-> "Exception"],
                        log(FALSE))

\* mutant: a refused connect is tried again with force
attach_connect_retries_forced(s, cache, ip, force, outcome) ==
    LET log(f, ok) == <<[call |-> "MultiInstrument", ip |-> ip, force_connect |-> f, ok |-> ok]>>
    IN  CASE outcome = "ok" ->
                Outcome([s EXCEPT !.moku_instance = <<Handle(ip, force)>>,
                                  !.connected_device = ip],
                        [status |-> "connected",
                         device |-> [ip |-> ip, name |-> Unknown, serial |-> Unknown,
                                     platform |-> "Moku:Go"]],
                        log(force, TRUE))
          [] outcome = "ConnectionError" ->
                Outcome([s EXCEPT !.moku_instance = <<Handle(ip, TRUE)>>,
                                  !.connected_device = ip],
                        [status |-> "connected",
                         device |-> [ip |-> ip, name |-> Unknown, serial |-> Unknown,
                                     platform |-> "Moku:Go"]],
                        log(force, FALSE) \o log(TRUE, TRUE))
          [] OTHER ->
                Outcome([s EXCEPT !.moku_instance = None, !.connected_device = None],
                        [status |-> "error",
                         message |-> "Failed to connect",
                         details |-> "Exception"],
                        log(force, FALSE))

attach_connect(s, cache, ip, force, outcome) ==
    LET log(ok) == <<[call |-> "MultiInstrument", ip |-> ip, force_connect |-> force, ok |-> ok]>>
        i == find_by_ip(cache, ip)
    IN  CASE outcome = "ok" ->
                Outcome([s EXCEPT !.moku_instance = <<Handle(ip, force)>>,
                                  !.connected_device = ip],
                        [status |-> "connected",
                         device |-> [ip |-> ip,
                                     name |-> IF i # 0 THEN cache[i].canonical_name ELSE Unknown,
                                     serial |-> IF i # 0 THEN cache[i].serial_number ELSE Unknown,
                                     platform |-> "Moku:Go"]],
                        log(TRUE))
          [] outcome = "ConnectionError" ->
                Outcome(s,
                        [status |-> "error",
                         message |-> "Could not connect",
                         suggestion |-> "Try with force=True",
                         details |-> "ConnectionError"],
                        log(FALSE))
          [] OTHER ->
                Outcome([s EXCEPT !.moku_instance = None, !.connected_device = None],
                        [status |-> "error",
                         message |-> "Failed to connect",
                         details |-> "Exception"],
                        log(FALSE))

\* mutant: an attach for another device while connected switches to it
attach_moku_switches(s, cache, device_id, force, outcome) ==
    IF s.moku_instance # None /\ s.connected_device = device_id
    THEN Outcome(s,
                 [status |-> "already_connected",
                  message |-> "Already connected",
                  device |-> [ip |-> s.connected_device, platform |-> "Moku:Go"]],
                 <<>>)
    ELSE LET r == resolve_device_identifier(cache, device_id)
         IN  IF r = None /\ ~IsDottedDigits(device_id)
             THEN Outcome(s,
                          [status |-> "error",
                           message |-> "Device not found in cache",
                           suggestion |-> "Run discover_mokus() first to find devices"],
                          <<>>)
             ELSE attach_connect(s, cache, IF r = None THEN device_id ELSE r,
                                 force, outcome)

\* an attach that records the identifier it was given as its target
attach_moku_keeps_identifier(s, cache, device_id, force, outcome) ==
    LET r == resolve_device_identifier(cache, device_id)
        o == attach_connect(s, cache, IF r = None THEN device_id ELSE r, force, outcome)
    IN  IF s.moku_instance # None \/ (r = None /\ ~IsDottedDigits(device_id))
        THEN Outcome(s, [status |-> "error", message |-> "Already connected. Release first."], <<>>)
        ELSE IF o.session.moku_instance # None
        THEN [o EXCEPT !.session.connected_device = device_id]
        ELSE o

attach_moku(s, cache, device_id, force, outcome) ==
    IF s.moku_instance # None
    THEN IF s.connected_device = device_id
         THEN Outcome(s,
                      [status |-> "already_connected",
                       message |-> "Already connected",
                       device |-> [ip |-> s.connected_device, platform |-> "Moku:Go"]],
                      <<>>)
         ELSE Outcome(s,
                      [status |-> "error",
                       message |-> "Already connected. Release first.",
                       suggestion |-> "Call release_moku() before connecting to a different device"],
                      <<>>)
    ELSE LET r == resolve_device_identifier(cache, device_id)
         IN  IF r = None /\ ~IsDottedDigits(device_id)
             THEN Outcome(s,
                          [status |-> "error",
                           message |-> "Device not found in cache",
                           suggestion |-> "Run discover_mokus() first to find devices"],
                          <<>>)
             ELSE attach_connect(s, cache, IF r = None THEN device_id ELSE r,
                                 force, outcome)

IdleSession == Session(None, None, None)

\* mutant: the except branch does not clear the session
release_moku_stuck(s, relinquish_ok) ==
    IF s.moku_instance = None
    THEN Outcome(s,
                 [status |-> "not_connected",
                  message |-> "No active connection to release"],
                 <<>>)
    ELSE LET log == <<[call |-> "relinquish_ownership",
                       ip |-> s.moku_instance[1].ip, ok |-> relinquish_ok]>>
         IN  IF relinquish_ok
             THEN Outcome(IdleSession,
                          [status |-> "disconnected", device |-> s.connected_device],
                          log)
             ELSE Outcome(s,
                          [status |-> "error",
                           message |-> "Error releasing device",
                           details |-> "Exception"],
                          log)

\* a release that clears handle and target and keeps the cached config
release_moku_keeps_config(s, relinquish_ok) ==
    IF s.moku_instance = None
    THEN Outcome(s,
                 [status |-> "not_connected",
                  message |-> "No active connection to release"],
                 <<>>)
    ELSE Outcome([s EXCEPT !.moku_instance = None, !.connected_device = None],
                 [status |-> "disconnected", device |-> s.connected_device],
                 <<[call |-> "relinquish_ownership",
                    ip |-> s.moku_instance[1].ip, ok |-> relinquish_ok]>>)

release_moku(s, relinquish_ok) ==
    IF s.moku_instance = None
    THEN Outcome(s,
                 [status |-> "not_connected",
                  message |-> "No active connection to release"],
                 <<>>)
    ELSE LET log == <<[call |-> "relinquish_ownership",
                       ip |-> s.moku_instance[1].ip, ok |-> relinquish_ok]>>
         IN  IF relinquish_ok
             THEN Outcome(IdleSession,
                          [status |-> "disconnected", device |-> s.connected_device],
                          log)
             ELSE Outcome(IdleSession,
                          [status |-> "error",
                           message |-> "Error releasing device, but cleared internal state",
                           details |-> "Exception"],
                          log)

-----------------------------------------------------------------------------
(* The configs a caller may push *)

NumSlots == 4

SlotConfig(instrument, bitstream, control_registers, settings) ==
    [instrument |-> instrument, bitstream |-> bitstream,
     control_registers |-> control_registers, settings |-> settings]

\* control_registers, a dict in the order given: <<register, value>> pairs
RegisterLists == {<<>>, <<<<0, 7>>, <<1, 5>>>>, <<<<1, 5>>, <<0, 7>>>>}

\* settings, a dict: the set of its keys
SettingsChoices == {{}, {"timebase"}}

\* the slot configs of one config: its CloudCompile slots that have a
\* bitstream share the register list regs, its Oscilloscope slots the settings
SlotConfigs(regs, settings) ==
    {SlotConfig("CloudCompile", <<"b">>, regs, {}),
     SlotConfig("CloudCompile", None, <<>>, {}),
     SlotConfig("Oscilloscope", None, <<>>, settings),
     SlotConfig("Spectrum", None, <<>>, {})}

\* config.slots, a dict in the order given: entries with distinct slot numbers
SlotLists(regs, settings) ==
    {sl \in SeqsUpTo([slot : 1..MaxSlotNum, config : SlotConfigs(regs, settings)],
                     MaxSlotNum) :
        \A i, j \in 1..Len(sl) : i # j => sl[i].slot # sl[j].slot}

\* channel 0 is a platform channel, channel n > 0 a channel of slot n
Edges == {[source |-> a, destination |-> b] : a, b \in 0..1} \ {[source |-> 0, destination |-> 0]}

Routings == {r \in SeqsUpTo(Edges, MaxEdges) : NoDup(r)}

Configs ==
    UNION {[schema_ok : {TRUE}, slots : SlotLists(regs, settings), routing : Routings] :
              regs \in RegisterLists, settings \in SettingsChoices}
      \cup {[schema_ok |-> FALSE, slots |-> <<>>, routing |-> <<>>]}

\* the configs pushed while the whole session life cycle is explored: at most
\* an Oscilloscope in slot 1 and at most one edge, from the platform to slot 1
SessionConfigs ==
    {c \in Configs :
        /\ Len(c.slots) <= 1
        /\ Len(c.routing) <= 1
        /\ \A i \in 1..Len(c.routing) : c.routing[i].source = 0
        /\ \A i \in 1..Len(c.slots) :
              /\ c.slots[i].slot = 1
              /\ c.slots[i].config.instrument = "Oscilloscope"
              /\ c.slots[i].config.settings = {}}

\* MokuConfig.model_validate: the parsed config
model_validate(config_dict) ==
    [slots |-> config_dict.slots, routing |-> config_dict.routing]

DeclaredSlots(config) == {config.slots[i].slot : i \in 1..Len(config.slots)}

EdgeErrors(config, e) ==
    (IF e.source = e.destination THEN <<"self_loop">> ELSE <<>>)
    \o (IF e.source # 0 /\ e.source \notin DeclaredSlots(config)
        THEN <<"unknown_source">> ELSE <<>>)
    \o (IF e.destination # 0 /\ e.destination \notin DeclaredSlots(config)
        THEN <<"unknown_destination">> ELSE <<>>)

RECURSIVE RoutingErrors(_, _)
RoutingErrors(config, i) ==
    IF i > Len(config.routing) THEN <<>>
    ELSE EdgeErrors(config, config.routing[i]) \o RoutingErrors(config, i + 1)

\* MokuConfig.validate_routing: the list of errors, empty when valid
validate_routing(config) ==
    (IF \E n \in DeclaredSlots(config) : n \notin 1..NumSlots
     THEN <<"slot_out_of_range">> ELSE <<>>)
    \o RoutingErrors(config, 1)

-----------------------------------------------------------------------------
(* server.py: push_config *)

HwCall(name, slot, arg) == [call |-> name, slot |-> slot, arg |-> arg]

\* mutant: the registers are written last to first
RECURSIVE RegisterWrites_reversed(_, _, _)
RegisterWrites_reversed(slot_num, regs, i) ==
    IF i > Len(regs) THEN <<>>
    ELSE RegisterWrites_reversed(slot_num, regs, i + 1)
         \o <<HwCall("write_register", slot_num, regs[i])>>

\* the write_register calls for the control registers from entry i on, in the
\* order of the dict
RECURSIVE RegisterWrites(_, _, _)
RegisterWrites(slot_num, regs, i) ==
    IF i > Len(regs) THEN <<>>
    ELSE <<HwCall("write_register", slot_num, regs[i])>>
         \o RegisterWrites(slot_num, regs, i + 1)

\* mutant: a CloudCompile slot is instantiated whether it has a bitstream or not
SlotCalls_no_bitstream_check(slot_num, slot_config) ==
    CASE slot_config.instrument = "CloudCompile" ->
            <<HwCall("set_instrument", slot_num, "CloudCompile")>>
            \o (IF slot_config.control_registers # <<>>
                THEN <<HwCall("get_instrument", slot_num, None)>>
                     \o RegisterWrites(slot_num, slot_config.control_registers, 1)
                ELSE <<>>)
      [] slot_config.instrument = "Oscilloscope" ->
            <<HwCall("set_instrument", slot_num, "Oscilloscope")>>
            \o (IF slot_config.settings # {} /\ "timebase" \in slot_config.settings
                THEN <<HwCall("set_timebase", slot_num, None)>>
                ELSE <<>>)
      [] OTHER -> <<>>

\* the SDK calls that deploying one slot makes when none of them raises
SlotCalls(slot_num, slot_config) ==
    CASE slot_config.instrument = "CloudCompile" ->
            IF slot_config.bitstream = None
            THEN <<>>
            ELSE <<HwCall("set_instrument", slot_num, "CloudCompile")>>
                 \o (IF slot_config.control_registers # <<>>
                     THEN <<HwCall("get_instrument", slot_num, None)>>
                          \o RegisterWrites(slot_num, slot_config.control_registers, 1)
                     ELSE <<>>)
      [] slot_config.instrument = "Oscilloscope" ->
            <<HwCall("set_instrument", slot_num, "Oscilloscope")>>
            \o (IF slot_config.settings # {} /\ "timebase" \in slot_config.settings
                THEN <<HwCall("set_timebase", slot_num, None)>>
                ELSE <<>>)
      [] OTHER -> <<>>

\* whether the slot is appended to deployed_slots once its calls are through
IsDeployable(slot_config) ==
    \/ slot_config.instrument = "CloudCompile" /\ slot_config.bitstream # None
    \/ slot_config.instrument = "Oscilloscope"

Logged(calls, n, last_ok) ==
    [i \in 1..n |->
        [call |-> calls[i].call, slot |-> calls[i].slot, arg |-> calls[i].arg,
         ok |-> (i < n \/ last_ok)]]

\* the order in which push_config visits the declared slots
SlotOrder(config) == config.slots

\* mutant: the slot is appended to deployed_slots before its calls are made
RECURSIVE DeploySlots_append_first(_, _, _, _, _)
DeploySlots_append_first(slots, i, budget, log, deployed) ==
    IF i > Len(slots)
    THEN [failed |-> 0, log |-> log, deployed |-> deployed, budget |-> budget]
    ELSE LET calls == SlotCalls(slots[i].slot, slots[i].config)
             appended == IF IsDeployable(slots[i].config)
                         THEN Append(deployed, slots[i].slot) ELSE deployed
         IN  IF budget >= 0 /\ budget < Len(calls)
             THEN [failed |-> slots[i].slot,
                   log |-> log \o Logged(calls, budget + 1, FALSE),
                   deployed |-> appended, budget |-> budget]
             ELSE DeploySlots_append_first(slots, i + 1,
                              IF budget < 0 THEN budget ELSE budget - Len(calls),
                              log \o Logged(calls, Len(calls), TRUE),
                              appended)

\* The slot loop from entry i on.  budget is the number of SDK calls that are
\* still to succeed before one raises (-1: none raises).
RECURSIVE DeploySlots(_, _, _, _, _)
DeploySlots(slots, i, budget, log, deployed) ==
    IF i > Len(slots)
    THEN [failed |-> 0, log |-> log, deployed |-> deployed, budget |-> budget]
    ELSE LET calls == SlotCalls(slots[i].slot, slots[i].config)
         IN  IF budget >= 0 /\ budget < Len(calls)
             THEN [failed |-> slots[i].slot,
                   log |-> log \o Logged(calls, budget + 1, FALSE),
                   deployed |-> deployed, budget |-> budget]
             ELSE DeploySlots(slots, i + 1,
                              IF budget < 0 THEN budget ELSE budget - Len(calls),
                              log \o Logged(calls, Len(calls), TRUE),
                              IF IsDeployable(slots[i].config)
                              THEN Append(deployed, slots[i].slot) ELSE deployed)

\* the connections list built for set_connections
Connections(routing) ==
    [i \in 1..Len(routing) |->
        [source |-> routing[i].source, destination |-> routing[i].destination]]

\* mutant: the config is cached before the routing is applied
push_routing_caches_first(s, config, d) ==
    IF config.routing # <<>>
    THEN IF d.budget = 0
         THEN Outcome([s EXCEPT !.last_config = <<config>>],
                      [status |-> "partial_success",
                       message |-> "Instruments deployed but routing failed",
                       slots_configured |-> d.deployed,
                       routing_error |-> "Exception"],
                      d.log \o <<[call |-> "set_connections", slot |-> 0,
                                  arg |-> Connections(config.routing), ok |-> FALSE]>>)
         ELSE Outcome([s EXCEPT !.last_config = <<config>>],
                      [status |-> "deployed",
                       slots_configured |-> d.deployed,
                       routing_configured |-> TRUE],
                      d.log \o <<[call |-> "set_connections", slot |-> 0,
                                  arg |-> Connections(config.routing), ok |-> TRUE]>>)
    ELSE Outcome([s EXCEPT !.last_config = <<config>>],
                 [status |-> "deployed",
                  slots_configured |-> d.deployed,
                  routing_configured |-> FALSE],
                 d.log)

\* the routing step and the end of push_config, after the slot loop
\* mutant: the edges are applied one set_connections call at a time
push_routing_edge_by_edge(s, config, d) ==
    LET calls(n, last_ok) ==
            [i \in 1..n |-> [call |-> "set_connections", slot |-> 0,
                             arg |-> <<Connections(config.routing)[i]>>,
                             ok |-> (i < n \/ last_ok)]]
    IN  IF config.routing # <<>>
        THEN IF d.budget = 0
             THEN Outcome(s,
                          [status |-> "partial_success",
                           message |-> "Instruments deployed but routing failed",
                           slots_configured |-> d.deployed,
                           routing_error |-> "Exception"],
                          d.log \o calls(1, FALSE))
             ELSE Outcome([s EXCEPT !.last_config = <<config>>],
                          [status |-> "deployed",
                           slots_configured |-> d.deployed,
                           routing_configured |-> TRUE],
                          d.log \o calls(Len(config.routing), TRUE))
        ELSE Outcome([s EXCEPT !.last_config = <<config>>],
                     [status |-> "deployed",
                      slots_configured |-> d.deployed,
                      routing_configured |-> FALSE],
                     d.log)

push_routing(s, config, d) ==
    IF config.routing # <<>>
    THEN IF d.budget = 0
         THEN Outcome(s,
                      [status |-> "partial_success",
                       message |-> "Instruments deployed but routing failed",
                       slots_configured |-> d.deployed,
                       routing_error |-> "Exception"],
                      d.log \o <<[call |-> "set_connections", slot |-> 0,
                                  arg |-> Connections(config.routing), ok |-> FALSE]>>)
         ELSE Outcome([s EXCEPT !.last_config = <<config>>],
                      [status |-> "deployed",
                       slots_configured |-> d.deployed,
                       routing_configured |-> TRUE],
                      d.log \o <<[call |-> "set_connections", slot |-> 0,
                                  arg |-> Connections(config.routing), ok |-> TRUE]>>)
    ELSE Outcome([s EXCEPT !.last_config = <<config>>],
                 [status |-> "deployed",
                  slots_configured |-> d.deployed,
                  routing_configured |-> FALSE],
                 d.log)

\* the number of SDK calls push_config makes for a config when none raises
RECURSIVE CountSlotCalls(_, _)
CountSlotCalls(slots, i) ==
    IF i > Len(slots) THEN 0
    ELSE Len(SlotCalls(slots[i].slot, slots[i].config)) + CountSlotCalls(slots, i + 1)

TotalCalls(config) ==
    CountSlotCalls(config.slots, 1) + (IF config.routing # <<>> THEN 1 ELSE 0)

\* mutant: the routing is validated after the slots have been deployed
push_config_validates_late(s, config_dict, fail_at) ==
    IF s.moku_instance = None
    THEN Outcome(s, NotConnectedError, <<>>)
    ELSE IF ~config_dict.schema_ok
    THEN Outcome(s,
                 [status |-> "error", message |-> "Invalid MokuConfig",
                  errors |-> <<"ValidationError">>],
                 <<>>)
    ELSE LET config == model_validate(config_dict)
             errors == validate_routing(config)
             d == DeploySlots(SlotOrder(config), 1, fail_at - 1, <<>>, <<>>)
         IN  IF d.failed # 0
             THEN Outcome(s,
                          [status |-> "error",
                           message |-> "Failed to deploy instrument to slot",
                           slot |-> d.failed,
                           details |-> "Exception",
                           slots_deployed |-> d.deployed],
                          d.log)
             ELSE IF errors # <<>>
             THEN Outcome(s,
                          [status |-> "error",
                           message |-> "Invalid routing configuration",
                           errors |-> errors],
                          d.log)
             ELSE push_routing(s, config, d)

\* fail_at: the position of the SDK call that raises, 0 when none does
push_config(s, config_dict, fail_at) ==
    IF s.moku_instance = None
    THEN Outcome(s, NotConnectedError, <<>>)
    ELSE IF ~config_dict.schema_ok
    THEN Outcome(s,
                 [status |-> "error", message |-> "Invalid MokuConfig",
                  errors |-> <<"ValidationError">>],
                 <<>>)
    ELSE LET config == model_validate(config_dict)
             errors == validate_routing(config)
         IN  IF errors # <<>>
             THEN Outcome(s,
                          [status |-> "error",
                           message |-> "Invalid routing configuration",
                           errors |-> errors],
                          <<>>)
             ELSE LET d == DeploySlots(SlotOrder(config), 1, fail_at - 1, <<>>, <<>>)
                  IN  IF d.failed # 0
                      THEN Outcome(s,
                                   [status |-> "error",
                                    message |-> "Failed to deploy instrument to slot",
                                    slot |-> d.failed,
                                    details |-> "Exception",
                                    slots_deployed |-> d.deployed],
                                   d.log)
                      ELSE push_routing(s, config, d)

-----------------------------------------------------------------------------
(* server.py: get_config, set_routing, get_device_info, list_slots *)

\* what get_instrument(slot) answers: an instrument of that class, None, or
\* it raises
QueryOutcomes == {"CloudCompile", "Oscilloscope", "None", "raise"}

\* the answers of one scan of the slots; the slots above MaxSlotNum are empty
SlotQueries ==
    {q \in [1..NumSlots -> QueryOutcomes] : \A n \in 1..NumSlots : n > MaxSlotNum => q[n] = "None"}

QueryLog(q) ==
    [n \in 1..NumSlots |->
        [call |-> "get_instrument", slot |-> n, arg |-> q[n], ok |-> q[n] # "raise"]]

IsInstrument(o) == o \notin {"None", "raise"}

\* BaseModel.model_dump
model_dump(config) == [slots |-> config.slots, routing |-> config.routing]

\* mutant: the scan stops at the first query that raises
RECURSIVE ReconstructSlots_aborts(_, _)
ReconstructSlots_aborts(q, n) ==
    IF n > NumSlots \/ q[n] = "raise" THEN <<>>
    ELSE (IF IsInstrument(q[n])
          THEN <<[slot |-> n, config |-> SlotConfig(q[n], None, <<>>, {})]>>
          ELSE <<>>)
         \o ReconstructSlots_aborts(q, n + 1)

\* the slot scan of get_config from slot n on: a slot that holds an
\* instrument is recorded with the class name, any other is passed over
RECURSIVE ReconstructSlots(_, _)
ReconstructSlots(q, n) ==
    IF n > NumSlots THEN <<>>
    ELSE (IF IsInstrument(q[n])
          THEN <<[slot |-> n, config |-> SlotConfig(q[n], None, <<>>, {})]>>
          ELSE <<>>)
         \o ReconstructSlots(q, n + 1)

\* mutant: the cached config is ignored and the hardware is queried anyway
get_config_requeries(s, q) ==
    IF s.moku_instance = None
    THEN Outcome(s, NotConnectedError, <<>>)
    ELSE Outcome(s,
                 [platform |-> [ip_address |-> s.connected_device],
                  slots |-> ReconstructSlots(q, 1),
                  routing |-> IF s.last_config # None /\ s.last_config[1].routing # <<>>
                              THEN s.last_config[1].routing ELSE <<>>],
                 QueryLog(q))

\* a get_config that caches the config it reconstructed
get_config_caches_scan(s, q) ==
    IF s.moku_instance = None
    THEN Outcome(s, NotConnectedError, <<>>)
    ELSE IF s.last_config # None
    THEN Outcome(s, model_dump(s.last_config[1]), <<>>)
    ELSE Outcome([s EXCEPT !.last_config =
                     <<[slots |-> ReconstructSlots(q, 1), routing |-> <<>>]>>],
                 [platform |-> [ip_address |-> s.connected_device],
                  slots |-> ReconstructSlots(q, 1),
                  routing |-> <<>>],
                 QueryLog(q))

get_config(s, q) ==
    IF s.moku_instance = None
    THEN Outcome(s, NotConnectedError, <<>>)
    ELSE IF s.last_config # None
    THEN Outcome(s, model_dump(s.last_config[1]), <<>>)
    ELSE Outcome(s,
                 [platform |-> [ip_address |-> s.connected_device],
                  slots |-> ReconstructSlots(q, 1),
                  routing |-> IF s.last_config # None /\ s.last_config[1].routing # <<>>
                              THEN s.last_config[1].routing ELSE <<>>],
                 QueryLog(q))

\* the connections argument of set_routing: mappings is false when an entry
\* is not a mapping at all (MokuConnection(**conn) raises TypeError),
\* well_formed is false when an entry does not parse as a MokuConnection
ConnectionLists ==
    [well_formed : {TRUE}, mappings : {TRUE}, edges : Routings]
        \cup {[well_formed |-> FALSE, mappings |-> m, edges |-> <<>>] : m \in BOOLEAN}

\* a set_routing that applies the edges and leaves the cached config alone
set_routing_leaves_cache(s, connections, hw_ok) ==
    IF s.moku_instance = None
    THEN Outcome(s, NotConnectedError, <<>>)
    ELSE IF ~connections.mappings
    THEN Raised(s, "TypeError", <<>>)
    ELSE IF ~connections.well_formed
    THEN Outcome(s,
                 [status |-> "error", message |-> "Invalid connection format",
                  errors |-> <<"ValidationError">>],
                 <<>>)
    ELSE Outcome(s,
                 IF hw_ok
                 THEN [status |-> "configured", connections_count |-> Len(connections.edges)]
                 ELSE [status |-> "error", message |-> "Failed to configure routing",
                       details |-> "Exception"],
                 <<[call |-> "set_connections", slot |-> 0,
                    arg |-> connections.edges, ok |-> hw_ok]>>)

set_routing(s, connections, hw_ok) ==
    IF s.moku_instance = None
    THEN Outcome(s, NotConnectedError, <<>>)
    ELSE IF ~connections.mappings
    THEN Raised(s, "TypeError", <<>>)
    ELSE IF ~connections.well_formed
    THEN Outcome(s,
                 [status |-> "error", message |-> "Invalid connection format",
                  errors |-> <<"ValidationError">>],
                 <<>>)
    ELSE LET log == <<[call |-> "set_connections", slot |-> 0,
                       arg |-> connections.edges, ok |-> hw_ok]>>
         IN  IF hw_ok
             THEN Outcome(IF s.last_config # None
                          THEN [s EXCEPT !.last_config =
                                   <<[s.last_config[1] EXCEPT !.routing = connections.edges]>>]
                          ELSE s,
                          [status |-> "configured",
                           connections_count |-> Len(connections.edges)],
                          log)
             ELSE Outcome(s,
                          [status |-> "error", message |-> "Failed to configure routing",
                           details |-> "Exception"],
                          log)

\* how a metadata query on a temporary Moku connection goes: which call raises
MetadataOutcomes == {"ok", "connect_raise", "name_raise", "serial_raise", "relinquish_raise"}

TempCall(name, ip, ok) == [call |-> name, ip |-> ip, ok |-> ok]

\* the calls of get_device_info on its temporary connection: relinquish is in
\* a finally block
InfoLog(ip, outcome) ==
    CASE outcome = "connect_raise" -> <<TempCall("Moku", ip, FALSE)>>
      [] outcome = "name_raise" ->
            <<TempCall("Moku", ip, TRUE), TempCall("name", ip, FALSE),
              TempCall("relinquish_ownership", ip, TRUE)>>
      [] outcome = "serial_raise" ->
            <<TempCall("Moku", ip, TRUE), TempCall("name", ip, TRUE),
              TempCall("serial_number", ip, FALSE),
              TempCall("relinquish_ownership", ip, TRUE)>>
      [] OTHER ->
            <<TempCall("Moku", ip, TRUE), TempCall("name", ip, TRUE),
              TempCall("serial_number", ip, TRUE),
              TempCall("relinquish_ownership", ip, outcome = "ok")>>

get_device_info(s, outcome) ==
    IF s.moku_instance = None
    THEN Outcome(s, NotConnectedError, <<>>)
    ELSE IF outcome = "ok"
    THEN Outcome(s,
                 [ip |-> s.connected_device,
                  name |-> NameAt(s.connected_device),
                  serial |-> SerialAt(s.connected_device),
                  platform |-> "Moku:Go",
                  connected |-> TRUE],
                 InfoLog(s.connected_device, outcome))
    ELSE Outcome(s,
                 [status |-> "error",
                  message |-> "Failed to query device information",
                  details |-> "Exception"],
                 InfoLog(s.connected_device, outcome))

list_slots(s, q) ==
    IF s.moku_instance = None
    THEN Outcome(s, NotConnectedError, <<>>)
    ELSE Outcome(s,
                 [slots |->
                    [n \in 1..NumSlots |->
                        IF IsInstrument(q[n])
                        THEN [instrument |-> q[n], configured |-> TRUE]
                        ELSE [configured |-> FALSE]]],
                 QueryLog(q))

-----------------------------------------------------------------------------
(* server.py: discover_mokus *)

\* the calls of the enrichment of one discovered device: relinquish is not
\* reached when name() or serial_number() raises
EnrichLog(ip, outcome) ==
    CASE outcome = "connect_raise" -> <<TempCall("Moku", ip, FALSE)>>
      [] outcome = "name_raise" ->
            <<TempCall("Moku", ip, TRUE), TempCall("name", ip, FALSE)>>
      [] outcome = "serial_raise" ->
            <<TempCall("Moku", ip, TRUE), TempCall("name", ip, TRUE),
              TempCall("serial_number", ip, FALSE)>>
      [] OTHER ->
            <<TempCall("Moku", ip, TRUE), TempCall("name", ip, TRUE),
              TempCall("serial_number", ip, TRUE),
              TempCall("relinquish_ownership", ip, outcome = "ok")>>

\* the enrichment loop over the discovered devices from entry i on
RECURSIVE Enrich(_, _, _, _, _, _, _)
Enrich(found, outcomes, now, i, cache, devices, log) ==
    IF i > Len(found)
    THEN [cache |-> cache, devices |-> devices, log |-> log]
    ELSE LET ip == IpOf(found[i])
             ok == outcomes[i] = "ok"
             named == outcomes[i] \notin {"connect_raise", "name_raise"}
             serialed == outcomes[i] \in {"ok", "relinquish_raise"}
         IN  Enrich(found, outcomes, now, i + 1,
                    IF ok THEN update_cache_with_device(cache, ip, NameAt(ip), SerialAt(ip), now)
                    ELSE cache,
                    Append(devices,
                           DeviceRecord(ip,
                                        IF named THEN NameAt(ip) ELSE None,
                                        IF serialed THEN SerialAt(ip) ELSE None,
                                        now)),
                    log \o EnrichLog(ip, outcomes[i]))

\* zeroconf_ok: whether Zeroconf() and the browser start, which no try block
\* guards; found: the devices zeroconf reported within the timeout, in order
discover_mokus(cache, zeroconf_ok, found, outcomes, now) ==
    IF ~zeroconf_ok
    THEN [cache |-> cache, raised |-> "OSError",
          hwlog |-> <<TempCall("Zeroconf", None, FALSE)>>]
    ELSE LET e == Enrich(found, outcomes, now, 1, cache, <<>>,
                         <<TempCall("Zeroconf", None, TRUE)>>)
         IN  [cache |-> e.cache,
              result |-> [devices |-> e.devices, count |-> Len(e.devices)],
              hwlog |-> e.log]

-----------------------------------------------------------------------------
(* session.py: MokuSession *)

\* __aenter__: the singleton is fetched and attach_moku is awaited; attach_moku
\* reports its failures in the dict it returns, which is not looked at, so
\* self.server stays set and the block is entered
__aenter__(s, cache, device_id, force, outcome) ==
    LET a == attach_moku(s, cache, device_id, force, outcome)
    IN  [session |-> a.session, server |-> TRUE, attached |-> a.result, hwlog |-> a.hwlog]

\* mutant: nothing is released when the block ends with an exception
__aexit___skips_after_exception(s, server, body_raised, relinquish_ok) ==
    LET r == IF server /\ s.moku_instance # None /\ ~body_raised
             THEN release_moku(s, relinquish_ok)
             ELSE Outcome(s, [status |-> "not_called"], <<>>)
    IN  [session |-> r.session, server |-> FALSE, released |-> r.result,
         raised |-> FALSE, suppress |-> FALSE, hwlog |-> r.hwlog]

\* __aexit__: server is whether self.server is set, body_raised whether the
\* block ended with an exception. release_moku is awaited when the server
\* holds a handle; raised: whether __aexit__ raises itself; suppress: what it
\* returns, the body's exception goes on when it is false
__aexit__(s, server, body_raised, relinquish_ok) ==
    LET r == IF server /\ s.moku_instance # None
             THEN release_moku(s, relinquish_ok)
             ELSE Outcome(s, [status |-> "not_called"], <<>>)
    IN  [session |-> r.session, server |-> FALSE, released |-> r.result,
         raised |-> FALSE, suppress |-> FALSE, hwlog |-> r.hwlog]

-----------------------------------------------------------------------------
(* server.py: the singleton; tools.py: call_tool *)

\* MokuMCPServer.get_instance: constructs the singleton when there is none
get_instance(inst, n) ==
    IF inst = 0
    THEN [_instance |-> n + 1, created |-> n + 1]
    ELSE [_instance |-> inst, created |-> n]

\* MokuMCPServer(): the guard of __init__ reads _instance and never sets it
construct(inst, n) ==
    IF inst # 0
    THEN [raised |-> TRUE, created |-> n]
    ELSE [raised |-> FALSE, created |-> n + 1]

ToolNames ==
    {"discover_mokus", "attach_moku", "release_moku", "push_config", "get_config",
     "set_routing", "get_device_info", "list_slots"}

RequiresConnection ==
    {"push_config", "get_config", "set_routing", "get_device_info", "list_slots"}

\* mutant: no last-resort handler, the exception of the handler goes through
call_tool_unguarded(s, name, handled) ==
    IF name \notin ToolNames
    THEN Outcome(s,
                 [status |-> "error", message |-> "Unknown tool",
                  available_tools |-> ToolNames],
                 <<>>)
    ELSE IF name \in RequiresConnection /\ s.moku_instance = None
    THEN Outcome(s, NotConnectedError, <<>>)
    ELSE IF "raised" \in DOMAIN handled
    THEN Outcome(handled.session, [raised |-> handled.raised], handled.hwlog)
    ELSE handled

\* call_tool: handled is what the handler of the tool does when it is called;
\* an exception it lets through is turned into the generic error envelope
call_tool(s, name, handled) ==
    IF name \notin ToolNames
    THEN Outcome(s,
                 [status |-> "error", message |-> "Unknown tool",
                  available_tools |-> ToolNames],
                 <<>>)
    ELSE IF name \in RequiresConnection /\ s.moku_instance = None
    THEN Outcome(s, NotConnectedError, <<>>)
    ELSE IF "raised" \in DOMAIN handled
    THEN Outcome(handled.session,
                 [status |-> "error", message |-> handled.raised, tool |-> name],
                 handled.hwlog)
    ELSE handled

-----------------------------------------------------------------------------
(* The state machine *)

CurrentSession == Session(moku_instance, connected_device, last_config)

EmptyConfig == [schema_ok |-> TRUE, slots |-> <<>>, routing |-> <<>>]

\* no async-with block is open: MokuSession.__init__ leaves self.server None
NoSession == [pc |-> "outside", server |-> FALSE, refused |-> FALSE]

Init ==
    /\ _instance = 0
    /\ created = 0
    /\ moku_instance = None
    /\ connected_device = None
    /\ last_config = None
    /\ registry = <<>>
    /\ call = [tool |-> "start"]
    /\ result = [status |-> "start"]
    /\ hwlog = <<>>
    /\ pre = IdleSession
    /\ input_config = EmptyConfig
    /\ with_session = NoSession
    /\ pending = <<>>

\* a tool call through call_tool, which fetches the singleton first
ToolStep(c, o) ==
    LET g == get_instance(_instance, created)
    IN  /\ _instance' = g._instance
        /\ created' = g.created
        /\ moku_instance' = o.session.moku_instance
        /\ connected_device' = o.session.connected_device
        /\ last_config' = o.session.last_config
        /\ call' = c
        /\ result' = o.result
        /\ hwlog' = o.hwlog
        /\ pre' = CurrentSession

GetInstance ==
    LET g == get_instance(_instance, created)
    IN  /\ _instance' = g._instance
        /\ created' = g.created
        /\ call' = [tool |-> "get_instance"]
        /\ result' = [instance |-> g._instance]
        /\ hwlog' = <<>>
        /\ pre' = CurrentSession
        /\ UNCHANGED <<moku_instance, connected_device, last_config, registry,
                       input_config, with_session, pending>>

DirectConstruct ==
    LET k == construct(_instance, created)
    IN  /\ _instance # 0 \/ created < MaxDirect
        /\ created' = k.created
        /\ call' = [tool |-> "MokuMCPServer"]
        /\ result' = IF k.raised THEN [status |-> "RuntimeError"]
                     ELSE [status |-> "constructed", instance |-> k.created]
        /\ hwlog' = <<>>
        /\ pre' = CurrentSession
        /\ UNCHANGED <<_instance, moku_instance, connected_device, last_config,
                       registry, input_config, with_session, pending>>

\* The firmware of the device: while another client owns the device a connect
\* without force is rejected, which the SDK reports as a ConnectionError
\* ("Device may be offline or owned by another client"); any other connect may
\* go through or fail either way.
FirmwareAnswers(log, owned_elsewhere, outcome) ==
    \A i \in 1..Len(log) :
        (log[i].call = "MultiInstrument" /\ owned_elsewhere /\ ~log[i].force_connect)
        => outcome = "ConnectionError"

\* owned_elsewhere: whether another client owns the device at the time
AttachMokuTo(device_ids) ==
    \E device_id \in device_ids, force \in BOOLEAN, owned_elsewhere \in BOOLEAN,
       outcome \in ConnectOutcomes :
        LET o == call_tool(CurrentSession, "attach_moku",
                           attach_moku(CurrentSession, registry, device_id, force, outcome))
        IN  /\ FirmwareAnswers(o.hwlog, owned_elsewhere, outcome)
            /\ ToolStep([tool |-> "attach_moku", device_id |-> device_id, force |-> force,
                         owned_elsewhere |-> owned_elsewhere],
                        o)
            /\ UNCHANGED <<registry, input_config, with_session, pending>>

AttachMoku == AttachMokuTo(DeviceIds)

ReleaseMoku ==
    \E relinquish_ok \in BOOLEAN :
        /\ ToolStep([tool |-> "release_moku"],
                    call_tool(CurrentSession, "release_moku",
                              release_moku(CurrentSession, relinquish_ok)))
        /\ UNCHANGED <<registry, input_config, with_session, pending>>

PushConfig(config_dicts) ==
    \E config_dict \in config_dicts :
        \E fail_at \in 0..TotalCalls(model_validate(config_dict)) :
            /\ ToolStep([tool |-> "push_config", config_dict |-> config_dict],
                        call_tool(CurrentSession, "push_config",
                                  push_config(CurrentSession, config_dict, fail_at)))
            /\ UNCHANGED <<registry, input_config, with_session, pending>>

GetConfig(queries) ==
    \E q \in queries :
        /\ ToolStep([tool |-> "get_config"],
                    call_tool(CurrentSession, "get_config", get_config(CurrentSession, q)))
        /\ UNCHANGED <<registry, input_config, with_session, pending>>

SetRouting(connection_lists) ==
    \E connections \in connection_lists, hw_ok \in BOOLEAN :
        /\ ToolStep([tool |-> "set_routing", connections |-> connections],
                    call_tool(CurrentSession, "set_routing",
                              set_routing(CurrentSession, connections, hw_ok)))
        /\ UNCHANGED <<registry, input_config, with_session, pending>>

GetDeviceInfo ==
    \E outcome \in MetadataOutcomes :
        /\ ToolStep([tool |-> "get_device_info"],
                    call_tool(CurrentSession, "get_device_info",
                              get_device_info(CurrentSession, outcome)))
        /\ UNCHANGED <<registry, input_config, with_session, pending>>

ListSlots(queries) ==
    \E q \in queries :
        /\ ToolStep([tool |-> "list_slots"],
                    call_tool(CurrentSession, "list_slots", list_slots(CurrentSession, q)))
        /\ UNCHANGED <<registry, input_config, with_session, pending>>

\* what zeroconf may report within the timeout: any of the devices, each once
DiscoveryLists ==
    {f \in SeqsUpTo(Devices, MaxDevices) : \A i, j \in 1..Len(f) : i < j => f[i] < f[j]}

\* the clock does not run backwards: a reading is not before any last_seen
ClockReadings(cache, times) ==
    {t \in times : \A i \in 1..Len(cache) : cache[i].last_seen <= t}

DiscoverMokus(times) ==
    \E zeroconf_ok \in BOOLEAN, found \in DiscoveryLists, now \in ClockReadings(registry, times) :
        \E outcomes \in [1..Len(found) -> MetadataOutcomes] :
            LET d == discover_mokus(registry, zeroconf_ok, found, outcomes, now)
            IN  /\ ToolStep([tool |-> "discover_mokus"],
                            call_tool(CurrentSession, "discover_mokus",
                                      IF "raised" \in DOMAIN d
                                      THEN Raised(CurrentSession, d.raised, d.hwlog)
                                      ELSE Outcome(CurrentSession, d.result, d.hwlog)))
                /\ registry' = d.cache
                /\ UNCHANGED <<input_config, with_session, pending>>

UnknownTool ==
    /\ ToolStep([tool |-> "reboot"],
                call_tool(CurrentSession, "reboot", Outcome(CurrentSession, [status |-> "unreachable"], <<>>)))
    /\ UNCHANGED <<registry, input_config, with_session, pending>>

\* the connection lists tried while the whole session life cycle is explored
SessionConnectionLists ==
    {c \in ConnectionLists :
        Len(c.edges) <= 1 /\ \A i \in 1..Len(c.edges) : c.edges[i].source = 0}

\* the slot scans answered while the whole session life cycle is explored:
\* only slot 1 may hold an instrument or raise
SessionSlotQueries == {q \in SlotQueries : \A n \in 2..NumSlots : q[n] = "None"}

Next ==
    \/ AttachMoku
    \/ ReleaseMoku
    \/ PushConfig(SessionConfigs)
    \/ GetConfig(SlotQueries)
    \/ SetRouting(SessionConnectionLists)
    \/ GetDeviceInfo
    \/ ListSlots(SessionSlotQueries)
    \/ DiscoverMokus({0})
    \/ UnknownTool

Spec == Init /\ [][Next]_vars

\* The singleton: accessor and constructor calls interleaved with tool calls
NextSingleton ==
    \/ GetInstance
    \/ DirectConstruct
    \/ AttachMoku
    \/ ReleaseMoku

SpecSingleton == Init /\ [][NextSingleton]_vars

\* An async-with MokuSession block, with tool calls made on the singleton
\* inside and outside of it
SessionEnter ==
    \E device_id \in DeviceIds, force \in BOOLEAN, owned_elsewhere \in BOOLEAN,
       outcome \in ConnectOutcomes :
        LET g == get_instance(_instance, created)
            e == __aenter__(CurrentSession, registry, device_id, force, outcome)
        IN  /\ with_session.pc = "outside"
            /\ FirmwareAnswers(e.hwlog, owned_elsewhere, outcome)
            /\ _instance' = g._instance
            /\ created' = g.created
            /\ moku_instance' = e.session.moku_instance
            /\ connected_device' = e.session.connected_device
            /\ last_config' = e.session.last_config
            /\ with_session' = [pc |-> "body", server |-> e.server,
                                 refused |-> (moku_instance # None
                                              /\ e.attached.status = "error")]
            /\ call' = [tool |-> "MokuSession.__aenter__", device_id |-> device_id,
                        force |-> force, owned_elsewhere |-> owned_elsewhere]
            /\ result' = e.attached
            /\ hwlog' = e.hwlog
            /\ pre' = CurrentSession
            /\ UNCHANGED <<registry, input_config, pending>>

SessionExit ==
    \E body_raised \in BOOLEAN, relinquish_ok \in BOOLEAN :
        LET x == __aexit__(CurrentSession, with_session.server, body_raised, relinquish_ok)
        IN  /\ with_session.pc = "body"
            /\ moku_instance' = x.session.moku_instance
            /\ connected_device' = x.session.connected_device
            /\ last_config' = x.session.last_config
            /\ with_session' = [pc |-> "outside", server |-> x.server, refused |-> FALSE]
            /\ call' = [tool |-> "MokuSession.__aexit__", body_raised |-> body_raised,
                        refused |-> with_session.refused]
            /\ result' = [released |-> x.released, raised |-> x.raised,
                          suppress |-> x.suppress]
            /\ hwlog' = x.hwlog
            /\ pre' = CurrentSession
            /\ UNCHANGED <<_instance, created, registry, input_config, pending>>

NextSession ==
    \/ SessionEnter
    \/ SessionExit
    \/ AttachMoku
    \/ ReleaseMoku
    \/ PushConfig(SessionConfigs)

SpecSession == Init /\ [][NextSession]_vars

\* Tool calls dispatched as coroutines on one event loop. A handler runs
\* without interruption up to an await that yields to the loop; there it is
\* suspended and any other call may run before it resumes.

\* mutant: the connect of attach_moku is awaited as well
AwaitPoints_connect_awaited(tool) ==
    IF tool \in {"discover_mokus", "attach_moku"} THEN 1 ELSE 0

\* the number of awaits of a handler that yield: only the discovery wait of
\* discover_mokus; the SDK calls of all handlers are blocking calls
AwaitPoints(tool) == IF tool = "discover_mokus" THEN 1 ELSE 0

\* what a handler has read of the session when it reaches its await:
\* discover_mokus nothing, attach_moku the handle and the target
Examined(tool, s) == IF tool = "discover_mokus" THEN None ELSE <<s>>

\* the part of a handler after its await, for the suspended invocation p
Resumed(p, s, cache, found, outcomes, now, outcome) ==
    IF p.tool = "discover_mokus"
    THEN LET d == discover_mokus(cache, TRUE, found, outcomes, now)
         IN  [session |-> s, cache |-> d.cache, result |-> d.result, hwlog |-> d.hwlog]
    ELSE LET a == attach_connect(s, cache, p.ip, FALSE, outcome)
         IN  [session |-> a.session, cache |-> cache, result |-> a.result, hwlog |-> a.hwlog]

\* a call runs up to its await: discover_mokus has started zeroconf; an
\* attach_moku would have passed its state check on an Idle session
CallSuspend ==
    \E tool \in {"discover_mokus", "attach_moku"} :
        LET g == get_instance(_instance, created)
        IN  /\ AwaitPoints(tool) > 0
            /\ Len(pending) < MaxPending
            /\ tool = "attach_moku" => moku_instance = None
            /\ pending' = Append(pending,
                                 [tool |-> tool, ip |-> IpOf(1),
                                  seen |-> Examined(tool, CurrentSession),
                                  owned |-> moku_instance # None])
            /\ _instance' = g._instance
            /\ created' = g.created
            /\ call' = [tool |-> "suspend", invocation |-> tool]
            /\ result' = [status |-> "pending"]
            /\ hwlog' = IF tool = "discover_mokus"
                        THEN <<TempCall("Zeroconf", None, TRUE)>> ELSE <<>>
            /\ pre' = CurrentSession
            /\ UNCHANGED <<moku_instance, connected_device, last_config, registry,
                           input_config, with_session>>

\* how the enrichment of a device goes when a suspended discovery resumes
ResumeMetadataOutcomes == {"ok", "name_raise"}

\* a suspended call, any of them, runs from its await to its return
CallResume ==
    \E k \in 1..Len(pending) :
      \E found \in IF pending[k].tool = "discover_mokus"
                   THEN {f \in DiscoveryLists : Len(f) <= 1} ELSE {<<>>},
         outcome \in IF pending[k].tool = "discover_mokus" THEN {"ok"} ELSE ConnectOutcomes :
        \E outcomes \in [1..Len(found) -> ResumeMetadataOutcomes] :
            LET p == pending[k]
                r == Resumed(p, CurrentSession, registry, found, outcomes, 0, outcome)
            IN  /\ pending' = SubSeq(pending, 1, k - 1) \o SubSeq(pending, k + 1, Len(pending))
                /\ moku_instance' = r.session.moku_instance
                /\ connected_device' = r.session.connected_device
                /\ last_config' = r.session.last_config
                /\ registry' = r.cache
                /\ call' = [tool |-> "resume", invocation |-> p.tool, seen |-> p.seen,
                            owned |-> p.owned]
                /\ result' = r.result
                /\ hwlog' = r.hwlog
                /\ pre' = CurrentSession
                /\ UNCHANGED <<_instance, created, input_config, with_session>>

NextAsync ==
    \/ CallSuspend
    \/ CallResume
    \/ AttachMokuTo(Ips)
    \/ ReleaseMoku
    \/ PushConfig(SessionConfigs)

SpecAsync == Init /\ [][NextAsync]_vars

\* The registry under upserts alone: any address of UpsertIps, with or without
\* a name and a serial, at any reading of the clock up to MaxTime
UpsertIps == {<<"1", ".", "1">>, <<"1", ".", "2">>}
UpsertNames == {None, <<"m", "1">>, <<"m", "2">>}
UpsertSerials == {None, <<"s", "1">>}

UpsertDevice ==
    \E ip \in UpsertIps, name \in UpsertNames, serial \in UpsertSerials,
       now \in ClockReadings(registry, 0..MaxTime) :
        /\ registry' = update_cache_with_device(registry, ip, name, serial, now)
        /\ call' = [tool |-> "update_cache_with_device", ip |-> ip, name |-> name,
                    serial |-> serial, now |-> now, before |-> registry]
        /\ result' = [status |-> "None"]
        /\ hwlog' = <<>>
        /\ pre' = CurrentSession
        /\ UNCHANGED <<_instance, created, moku_instance, connected_device, last_config,
                       input_config, with_session, pending>>

NextRegistry == UpsertDevice

SpecRegistry == Init /\ [][NextRegistry]_vars

\* Deployment of one config, any config of Configs, on an owned session, and
\* its read-back
InitDeploy ==
    LET c == [tool |-> "attach_moku", device_id |-> IpOf(1), force |-> FALSE,
              owned_elsewhere |-> FALSE]
        o == attach_moku(IdleSession, <<>>, IpOf(1), FALSE, "ok")
    IN  /\ _instance = 1
        /\ created = 1
        /\ moku_instance = o.session.moku_instance
        /\ connected_device = o.session.connected_device
        /\ last_config = o.session.last_config
        /\ registry = <<>>
        /\ call = c
        /\ result = o.result
        /\ hwlog = o.hwlog
        /\ pre = IdleSession
        /\ input_config \in Configs
        /\ with_session = NoSession
        /\ pending = <<>>
    /\ pending = <<>>

\* the slot scan answered while one config is deployed: every slot empty
EmptySlotQueries == {[n \in 1..NumSlots |-> "None"]}

NextDeploy ==
    \/ PushConfig({input_config})
    \/ GetConfig(EmptySlotQueries)
    \/ ReleaseMoku

SpecDeploy == InitDeploy /\ [][NextDeploy]_vars

\* Routing applied through set_routing and read back through get_config, on
\* sessions with and without a cached config
NextRouting ==
    \/ AttachMokuTo(Ips)
    \/ ReleaseMoku
    \/ PushConfig(SessionConfigs)
    \/ SetRouting(ConnectionLists)
    \/ GetConfig(EmptySlotQueries)

SpecRouting == Init /\ [][NextRouting]_vars

-----------------------------------------------------------------------------
(* Properties *)

IsIdle == moku_instance = None /\ connected_device = None
SessionUnchanged == CurrentSession = pre
NoHardwareCall == hwlog = <<>>

\* the slots of the set_instrument calls of a log that went through, in order
RECURSIVE InstantiatedSlots(_, _)
InstantiatedSlots(log, i) ==
    IF i > Len(log) THEN <<>>
    ELSE (IF log[i].call = "set_instrument" /\ log[i].ok THEN <<log[i].slot>> ELSE <<>>)
         \o InstantiatedSlots(log, i + 1)

Pushed == call.tool = "push_config" /\ pre.moku_instance # None
PushedConfig == model_validate(call.config_dict)
PushedValid == call.config_dict.schema_ok /\ validate_routing(PushedConfig) = <<>>

\* C1: release_moku always leaves the session Idle with the cached config
\* cleared, whether relinquish_ownership returned or raised; called while Idle
\* it returns not_connected, makes no hardware call and changes nothing.
C1_ReleaseLeavesIdle ==
    call.tool = "release_moku" =>
        /\ IsIdle /\ last_config = None
        /\ pre.moku_instance = None =>
              result.status = "not_connected" /\ NoHardwareCall /\ SessionUnchanged
        /\ pre.moku_instance # None =>
              /\ Len(hwlog) = 1 /\ hwlog[1].call = "relinquish_ownership"
              /\ result.status = IF hwlog[1].ok THEN "disconnected" ELSE "error"

C1_Witness ==
    /\ call.tool = "release_moku"
    /\ pre.moku_instance # None /\ pre.last_config # None
    /\ hwlog # <<>> /\ ~hwlog[1].ok
    /\ IsIdle /\ last_config = None

\* C2: when the session is Owned with target T, attach_moku for every
\* identifier that resolves to T (the address itself, or a cached name or
\* serial) returns already_connected, makes no hardware connect and leaves
\* the session unchanged.
C2_AttachIdempotentOnResolvedTarget ==
    (/\ call.tool = "attach_moku"
     /\ pre.moku_instance # None
     /\ resolve_device_identifier(registry, call.device_id) = pre.connected_device)
    => result.status = "already_connected" /\ NoHardwareCall /\ SessionUnchanged

\* C3: when the session is Owned with target T, attach_moku for an identifier
\* that resolves to another target returns an error with the suggestion to
\* release first, makes no hardware call and leaves the session unchanged.
C3_AttachElsewhereRefused ==
    (/\ call.tool = "attach_moku"
     /\ pre.moku_instance # None
     /\ resolve_device_identifier(registry, call.device_id) \notin {None, pre.connected_device})
    => /\ result.status = "error"
       /\ "suggestion" \in DOMAIN result
       /\ result.suggestion = "Call release_moku() before connecting to a different device"
       /\ NoHardwareCall
       /\ SessionUnchanged /\ moku_instance # None

C3_Witness ==
    /\ call.tool = "attach_moku"
    /\ pre.moku_instance # None /\ pre.last_config # None
    /\ resolve_device_identifier(registry, call.device_id) \notin {None, pre.connected_device}
    /\ result.status = "error"

\* C4: an attach_moku that starts Idle and does not return connected leaves
\* the session Idle with neither handle nor target; an identifier that does
\* not resolve fails without a hardware connect, and a connect that raised
\* leaves nothing set.
C4_FailedAttachLeavesIdle ==
    (/\ call.tool = "attach_moku"
     /\ pre.moku_instance = None
     /\ result.status # "connected")
    => /\ IsIdle /\ last_config = None
       /\ result.status = "error"
       /\ resolve_device_identifier(registry, call.device_id) = None => NoHardwareCall
       /\ hwlog # <<>> => Len(hwlog) = 1 /\ ~hwlog[1].ok

C4_Witness ==
    /\ call.tool = "attach_moku"
    /\ pre.moku_instance = None
    /\ hwlog # <<>> /\ ~hwlog[1].ok
    /\ result.status = "error" /\ result.details = "ConnectionError"
    /\ IsIdle

\* C5: at most one MokuMCPServer object is ever constructed, whatever the
\* interleaving of get_instance() and direct constructor calls: a direct
\* constructor call raises or yields the singleton.
C5_AtMostOneInstance ==
    /\ created <= 1
    /\ (call.tool = "MokuMCPServer" /\ result.status = "constructed") =>
          result.instance = _instance

\* C6: while the session is Idle, push_config, get_config, set_routing,
\* get_device_info and list_slots each return the NotConnected error with the
\* suggestion to call attach_moku first, make no hardware call and leave the
\* session Idle without a cached config.
C6_IdleToolsNotConnected ==
    (call.tool \in RequiresConnection /\ pre.moku_instance = None)
    => /\ result.status = "error"
       /\ result.message = "Not connected to any device"
       /\ "suggestion" \in DOMAIN result
       /\ result.suggestion = "Call attach_moku first"
       /\ NoHardwareCall
       /\ IsIdle /\ last_config = None

C6_Witness ==
    /\ call.tool = "list_slots"
    /\ pre.moku_instance = None
    /\ result.status = "error"
    /\ _instance # 0

\* C7: push_config instantiates the declared slots in ascending slot-number
\* order whatever their order in the config: of two set_instrument calls, the
\* one for the lower slot comes first.
C7_AscendingSlotOrder ==
    Pushed =>
        \A i, j \in 1..Len(hwlog) :
            (/\ hwlog[i].call = "set_instrument"
             /\ hwlog[j].call = "set_instrument"
             /\ hwlog[i].slot < hwlog[j].slot) => i < j

\* C8: when a hardware call raises while a slot is deployed, push_config stops
\* at once: that call is the last one made (no later slot, no routing, no
\* rollback), the result is an error listing exactly the slots instantiated
\* before the failing one, and the session is as before the call, still Owned.
C8_SlotFailureAborts ==
    \A k \in 1..Len(hwlog) :
        (Pushed /\ ~hwlog[k].ok /\ hwlog[k].call # "set_connections")
        => /\ k = Len(hwlog)
           /\ result.status = "error"
           /\ result.slots_deployed =
                SelectSeq(InstantiatedSlots(hwlog, 1), LAMBDA n : n # hwlog[k].slot)
           /\ SessionUnchanged /\ moku_instance # None

C8_Witness ==
    /\ Pushed
    /\ hwlog # <<>> /\ ~hwlog[Len(hwlog)].ok /\ hwlog[Len(hwlog)].call = "write_register"
    /\ result.status = "error" /\ Len(result.slots_deployed) = 1
    /\ pre.last_config # None /\ last_config = pre.last_config

CloudCompileWithoutBitstream(e) ==
    e.config.instrument = "CloudCompile" /\ e.config.bitstream = None

DeployedSlots ==
    IF "slots_configured" \in DOMAIN result THEN result.slots_configured
    ELSE result.slots_deployed

\* C9: a CloudCompile slot declared without a bitstream is skipped: no
\* hardware call is made for it and it is not reported as configured; the
\* other slots are still processed, so that when no hardware call raises the
\* push ends deployed with every other instantiable slot configured.
C9_MissingBitstreamSkipped ==
    (Pushed /\ PushedValid) =>
        \A i \in 1..Len(PushedConfig.slots) :
            CloudCompileWithoutBitstream(PushedConfig.slots[i]) =>
                /\ \A k \in 1..Len(hwlog) : hwlog[k].slot # PushedConfig.slots[i].slot
                /\ PushedConfig.slots[i].slot \notin Range(DeployedSlots)
                /\ (\A k \in 1..Len(hwlog) : hwlog[k].ok) =>
                      /\ result.status = "deployed"
                      /\ Range(result.slots_configured) =
                            {PushedConfig.slots[j].slot : j \in
                                {j \in 1..Len(PushedConfig.slots) :
                                    IsDeployable(PushedConfig.slots[j].config)}}

C9_Witness ==
    /\ Pushed /\ PushedValid
    /\ Len(PushedConfig.slots) = 2
    /\ CloudCompileWithoutBitstream(PushedConfig.slots[1])
    /\ result.status = "deployed"
    /\ result.slots_configured = <<PushedConfig.slots[2].slot>>

\* C10: when the slots are through and the routing call raises, push_config
\* returns partial_success listing the deployed slots and leaves the cached
\* config as it was; a push_config changes the cached config only when it
\* ends deployed, and then to the pushed config.
C10_RoutingFailureIsPartial ==
    Pushed =>
        /\ (hwlog # <<>> /\ hwlog[Len(hwlog)].call = "set_connections"
                /\ ~hwlog[Len(hwlog)].ok) =>
              /\ result.status = "partial_success"
              /\ result.slots_configured = InstantiatedSlots(hwlog, 1)
              /\ SessionUnchanged
        /\ last_config # pre.last_config => result.status = "deployed"
        /\ result.status = "deployed" => last_config = <<PushedConfig>>

C10_Witness ==
    /\ Pushed
    /\ result.status = "partial_success"
    /\ Len(result.slots_configured) = 2
    /\ pre.last_config = None /\ last_config = None

\* C11: when push_config has returned deployed for a config and the very next
\* call is get_config, that call returns the pushed config, its routing equal
\* to the pushed edges in the same order, and queries no hardware.
C11_RoundTrip ==
    [][(/\ call.tool = "push_config"
        /\ result.status = "deployed"
        /\ call'.tool = "get_config")
       => (/\ result' = model_dump(model_validate(call.config_dict))
           /\ result'.routing = call.config_dict.routing
           /\ result'.slots = call.config_dict.slots
           /\ hwlog' = <<>>)]_vars

C11_Witness ==
    /\ call.tool = "get_config"
    /\ pre.last_config = <<model_validate(input_config)>>
    /\ Len(input_config.routing) = 2
    /\ result.routing = input_config.routing
    /\ hwlog = <<>>

\* C12: get_config on an Owned session without a cached config queries each
\* of the slots 1..4 once and returns a config whose slots are exactly those
\* whose query answered an instrument, in slot order, each with the class name
\* of the answer as its instrument, and whose routing is empty; a query that
\* raises or answers nothing only leaves its slot out.
C12_ReconstructsFromHardware ==
    (/\ call.tool = "get_config"
     /\ pre.moku_instance # None
     /\ pre.last_config = None)
    => /\ Len(hwlog) = NumSlots
       /\ \A n \in 1..NumSlots :
            /\ hwlog[n].call = "get_instrument" /\ hwlog[n].slot = n
            /\ IsInstrument(hwlog[n].arg)
                 <=> \E i \in 1..Len(result.slots) : result.slots[i].slot = n
       /\ \A i \in 1..Len(result.slots) :
            /\ result.slots[i].config.instrument = hwlog[result.slots[i].slot].arg
            /\ \A j \in 1..Len(result.slots) :
                 i < j => result.slots[i].slot < result.slots[j].slot
       /\ result.routing = <<>>
       /\ SessionUnchanged

C12_Witness ==
    /\ call.tool = "get_config"
    /\ pre.moku_instance # None
    /\ pre.last_config = None
    /\ hwlog[1].arg = "raise"
    /\ hwlog[2].arg = "CloudCompile"
    /\ Len(result.slots) = 1
    /\ result.slots[1].slot = 2

\* C13: a push_config on an Owned session whose config fails schema parsing
\* or routing validation returns an error result that lists the validation
\* errors, makes no hardware call at all, and leaves handle, target and cached
\* config as they were.
C13_InvalidConfigFailsFast ==
    (Pushed /\ ~PushedValid)
    => /\ result.status = "error"
       /\ "errors" \in DOMAIN result
       /\ NoHardwareCall
       /\ SessionUnchanged

\* a config that parses, declares an instrument and has an invalid edge
C13_Witness ==
    /\ Pushed
    /\ call.config_dict.schema_ok
    /\ validate_routing(PushedConfig) # <<>>
    /\ \E i \in 1..Len(PushedConfig.slots) : IsDeployable(PushedConfig.slots[i].config)
    /\ result.status = "error"
    /\ hwlog = <<>>

\* a dotted/colon numeric address literal: digits separated by dots or colons
IsNumericAddressLiteral(token) ==
    /\ \A i \in 1..Len(token) : token[i] \in Digits \cup {".", ":"}
    /\ \E i \in 1..Len(token) : token[i] \in Digits
    /\ \E i \in 1..Len(token) : token[i] \in {".", ":"}

\* the same with at least one dot
IsDottedNumericLiteral(token) ==
    /\ IsNumericAddressLiteral(token)
    /\ \E i \in 1..Len(token) : token[i] = "."

\* the address the resolution policy names for a token: the token itself when
\* it is an address literal, else the address of the first registry record
\* that matches it by name or serial, else none
PolicyAddress(is_literal, cache, token) ==
    IF is_literal THEN token
    ELSE IF \E i \in 1..Len(cache) : Matches(cache[i], token)
    THEN cache[CHOOSE i \in 1..Len(cache) :
                 /\ Matches(cache[i], token)
                 /\ \A k \in 1..(i - 1) : ~Matches(cache[k], token)].ip
    ELSE None

\* whether the attach of the last call, made on an Idle session, went for this
\* address: none means it failed without a connect, otherwise its only
\* hardware call is the connect to the address
AttachedTo(address) ==
    IF address = None
    THEN hwlog = <<>> /\ result.status = "error"
    ELSE /\ Len(hwlog) = 1
         /\ hwlog[1].call = "MultiInstrument"
         /\ hwlog[1].ip = address

\* C14 as stated: the address attach_moku obtains from
\* resolve_device_identifier on an Idle session is the one the policy names: a
\* dotted/colon numeric address literal verbatim whatever the registry holds,
\* else the address of the first registry record matching the token by name or
\* serial, else none. Resolution opens no connection.
C14_ResolutionPolicy ==
    (call.tool = "attach_moku" /\ pre.moku_instance = None)
    => AttachedTo(PolicyAddress(IsNumericAddressLiteral(call.device_id),
                                registry, call.device_id))

\* C14 amended: the same policy, where the address literal is a token that
\* contains a dot and is made of digits, dots and colons only; a numeric
\* token with colons and no dot goes to the registry like a name.
C14_ResolutionPolicyDotted ==
    (call.tool = "attach_moku" /\ pre.moku_instance = None)
    => AttachedTo(PolicyAddress(IsDottedNumericLiteral(call.device_id),
                                registry, call.device_id))

\* a literal with a colon is dialled verbatim although the registry is not empty
C14_Witness ==
    /\ call.tool = "attach_moku"
    /\ pre.moku_instance = None
    /\ call.device_id = <<"1", ".", "1", ":", "8">>
    /\ registry # <<>>
    /\ Len(hwlog) = 1
    /\ hwlog[1].ip = call.device_id

\* the last call went through call_tool
ToolCalled == call.tool \in ToolNames \cup {"reboot"}

IsErrorResult == "status" \in DOMAIN result /\ result.status = "error"

\* the handler of the last call let an exception through: the start of
\* zeroconf failed, or an entry of the connections was not a mapping
UnhandledException ==
    \/ /\ call.tool = "discover_mokus"
       /\ hwlog # <<>> /\ hwlog[1].call = "Zeroconf" /\ ~hwlog[1].ok
    \/ /\ call.tool = "set_routing"
       /\ pre.moku_instance # None
       /\ ~call.connections.mappings

\* C15: every call of call_tool, whatever the tool name and however the
\* hardware calls went, ends with a result and no exception; a result that
\* describes a failure (a suggestion, details, errors, the tool list or the
\* tool name) has status "error", and every result with status "error" has a
\* message; when the handler let an exception through, the result is the
\* envelope of status "error", the raw message and the tool name.
C15_NoExceptionEscapes ==
    ToolCalled
    => /\ "raised" \notin DOMAIN result
       /\ (DOMAIN result \cap {"suggestion", "details", "errors", "available_tools", "tool"}) # {}
            => IsErrorResult
       /\ IsErrorResult => "message" \in DOMAIN result
       /\ UnhandledException
            => /\ DOMAIN result = {"status", "message", "tool"}
               /\ result.status = "error"
               /\ result.tool = call.tool
               /\ result.message \in {"OSError", "TypeError"}

C15_Witness ==
    /\ call.tool = "set_routing"
    /\ pre.moku_instance # None
    /\ ~call.connections.mappings
    /\ result = [status |-> "error", message |-> "TypeError", tool |-> "set_routing"]

\* C16: every result with status "error" that attach_moku, release_moku,
\* push_config, get_config, set_routing, get_device_info or list_slots
\* returns contains a suggestion.
C16_ErrorsCarrySuggestion ==
    (call.tool \in ToolNames \ {"discover_mokus"} /\ IsErrorResult)
    => "suggestion" \in DOMAIN result

\* C17: every connect attach_moku makes passes the caller's force argument as
\* its force flag. With the firmware rejecting a connect without force while
\* another client owns the device, an attach without force on such a device
\* returns the error that advises to retry with force and leaves the session
\* Idle, and an attach that takes such a device over was called with force.
C17_NoImplicitTakeover ==
    (call.tool = "attach_moku" /\ hwlog # <<>>)
    => /\ \A i \in 1..Len(hwlog) :
            hwlog[i].call = "MultiInstrument" /\ hwlog[i].force_connect = call.force
       /\ (call.owned_elsewhere /\ ~call.force)
            => /\ result.status = "error"
               /\ "suggestion" \in DOMAIN result
               /\ result.suggestion = "Try with force=True"
               /\ IsIdle
       /\ (call.owned_elsewhere /\ result.status = "connected") => call.force

C17_Witness ==
    /\ call.tool = "attach_moku"
    /\ call.owned_elsewhere /\ ~call.force
    /\ Len(hwlog) = 1
    /\ ~hwlog[1].force_connect /\ ~hwlog[1].ok
    /\ result.status = "error"
    /\ IsIdle

\* the record an upsert leaves for its address, given the record it found
Upserted(found) ==
    [ip |-> call.ip,
     canonical_name |-> IF call.name # None THEN call.name ELSE found.canonical_name,
     serial_number |-> IF call.serial # None THEN call.serial ELSE found.serial_number,
     last_seen |-> call.now]

\* C18: after any sequence of upserts from the empty registry no two records
\* share an IP. An upsert for an IP already present keeps every record in its
\* place and changes only the record of that IP: last_seen becomes the time
\* of the call, name and serial are overwritten only when a value is given.
\* An upsert for a new IP appends exactly one record, with the given name and
\* serial, and leaves the others as they were. No record is removed.
C18_UpsertKeepsOnePerIp ==
    /\ \A i, k \in 1..Len(registry) : i # k => registry[i].ip # registry[k].ip
    /\ call.tool = "update_cache_with_device"
        => LET before == call.before
           IN  IF \E k \in 1..Len(before) : before[k].ip = call.ip
               THEN /\ Len(registry) = Len(before)
                    /\ \A k \in 1..Len(before) :
                         registry[k] = IF before[k].ip = call.ip
                                       THEN Upserted(before[k]) ELSE before[k]
               ELSE /\ Len(registry) = Len(before) + 1
                    /\ \A k \in 1..Len(before) : registry[k] = before[k]
                    /\ registry[Len(registry)] =
                         Upserted([canonical_name |-> None, serial_number |-> None])

\* an upsert without a name for the first of two records: the name stays, the
\* serial and last_seen are new
C18_Witness ==
    /\ call.tool = "update_cache_with_device"
    /\ Len(call.before) = 2
    /\ call.before[1].ip = call.ip
    /\ call.name = None /\ call.serial # None
    /\ call.before[1].canonical_name # None
    /\ call.before[1].serial_number = None
    /\ call.before[1].last_seen < call.now
    /\ registry[1].canonical_name = call.before[1].canonical_name
    /\ registry[1].last_seen = call.now
    /\ Len(registry) = 2

\* C19: when an async-with MokuSession block has ended, whether its body
\* completed or raised, the server holds no handle, no target and no cached
\* config, the MokuSession has dropped its server reference, __aexit__ has
\* raised nothing even when relinquish_ownership failed, and it has returned
\* False, so that an exception of the body goes on to the caller.
C19_SessionReleasesOnExit ==
    call.tool = "MokuSession.__aexit__"
    => /\ IsIdle /\ last_config = None
       /\ ~with_session.server
       /\ ~result.raised
       /\ ~result.suppress

\* the body raised after a push, and relinquish_ownership fails at the exit
C19_Witness ==
    /\ call.tool = "MokuSession.__aexit__"
    /\ call.body_raised
    /\ pre.moku_instance # None
    /\ pre.last_config # None
    /\ hwlog # <<>> /\ ~hwlog[1].ok
    /\ result.released.status = "error"
    /\ IsIdle /\ last_config = None

\* the instrument types push_config knows how to deploy
SupportedInstruments == {"CloudCompile", "Oscilloscope"}

\* C20: a push_config on an Owned session with a valid config that declares a
\* slot whose instrument is outside the supported set does not return status
\* deployed: it returns an error result.
C20_UnsupportedInstrumentRejected ==
    (/\ Pushed /\ PushedValid
     /\ \E i \in 1..Len(PushedConfig.slots) :
          PushedConfig.slots[i].config.instrument \notin SupportedInstruments)
    => /\ result.status # "deployed"
       /\ result.status = "error"

\* the write_register calls the last call made for slot n, in order
WritesFor(n) == SelectSeq(hwlog, LAMBDA e : e.call = "write_register" /\ e.slot = n)

\* the declared slots that are CloudCompile with a bitstream and registers
WithRegisters(config) ==
    {i \in 1..Len(config.slots) :
        /\ config.slots[i].config.instrument = "CloudCompile"
        /\ config.slots[i].config.bitstream # None
        /\ config.slots[i].config.control_registers # <<>>}

\* C21: for each CloudCompile slot with control registers, every register
\* write of a push_config comes after the slot's set_instrument went through,
\* with no call for another slot in between; the writes are the (register,
\* value) pairs of the config in the order given, up to the first that fails;
\* another slot is instantiated afterwards, and the slot is listed as
\* deployed, only when all of its writes went through.
C21_RegistersAfterInstantiation ==
    (Pushed /\ PushedValid)
    => \A i \in WithRegisters(PushedConfig) :
        LET n == PushedConfig.slots[i].slot
            regs == PushedConfig.slots[i].config.control_registers
            writes == WritesFor(n)
            complete == /\ Len(writes) = Len(regs)
                        /\ \A m \in 1..Len(writes) : writes[m].ok
        IN  /\ Len(writes) <= Len(regs)
            /\ \A m \in 1..Len(writes) : writes[m].arg = regs[m]
            /\ \A k \in 1..Len(hwlog) :
                 (hwlog[k].call = "write_register" /\ hwlog[k].slot = n)
                 => \E p \in 1..(k - 1) :
                        /\ hwlog[p].call = "set_instrument" /\ hwlog[p].slot = n
                        /\ hwlog[p].ok
                        /\ \A q \in p..k : hwlog[q].slot = n
            /\ \A p, q \in 1..Len(hwlog) :
                 (/\ p < q
                  /\ hwlog[p].call = "set_instrument" /\ hwlog[p].slot = n
                  /\ hwlog[q].call = "set_instrument" /\ hwlog[q].slot # n)
                 => complete
            /\ (\E d \in 1..Len(DeployedSlots) : DeployedSlots[d] = n) => complete

\* two CloudCompile slots, register 1 written before register 0 in each
C21_Witness ==
    /\ Pushed /\ PushedValid
    /\ result.status = "deployed"
    /\ Len(result.slots_configured) = 2
    /\ Len(WritesFor(1)) = 2 /\ Len(WritesFor(2)) = 2
    /\ WritesFor(1)[1].arg = <<1, 5>>
    /\ WritesFor(1)[2].arg = <<0, 7>>

\* the positions of the set_connections calls of the last call
RoutingCalls == {k \in 1..Len(hwlog) : hwlog[k].call = "set_connections"}

\* C22: a push_config makes at most one set_connections call. When it makes
\* one, the config is valid and declares edges, the call is the last call and
\* carries all the edges of the config in config order, every call before it
\* went through, and every declared slot that is instantiable has been
\* instantiated. A config without edges makes none, and routing_configured is
\* then false; a push that ends deployed with edges declared made the call.
C22_RoutingAppliedOnce ==
    Pushed
    => /\ Cardinality(RoutingCalls) <= 1
       /\ \A k \in RoutingCalls :
            /\ PushedValid
            /\ PushedConfig.routing # <<>>
            /\ k = Len(hwlog)
            /\ hwlog[k].arg = PushedConfig.routing
            /\ \A p \in 1..(k - 1) : hwlog[p].ok
            /\ \A i \in 1..Len(PushedConfig.slots) :
                 IsDeployable(PushedConfig.slots[i].config)
                 => \E p \in 1..(k - 1) :
                        /\ hwlog[p].call = "set_instrument"
                        /\ hwlog[p].slot = PushedConfig.slots[i].slot
       /\ (PushedValid /\ PushedConfig.routing = <<>>)
            => /\ RoutingCalls = {}
               /\ result.status = "deployed" => ~result.routing_configured
       /\ (result.status = "deployed" /\ PushedConfig.routing # <<>>)
            => RoutingCalls # {} /\ result.routing_configured

\* two slots and two edges: the one routing call comes last with both edges
C22_Witness ==
    /\ Pushed
    /\ result.status = "deployed"
    /\ result.routing_configured
    /\ Len(PushedConfig.routing) = 2
    /\ Len(result.slots_configured) = 2
    /\ RoutingCalls = {Len(hwlog)}
    /\ hwlog[Len(hwlog)].arg = PushedConfig.routing

\* C23: after attach_moku has returned status connected, the registry holds a
\* record keyed by the address it connected to, also when there was none
\* before the call.
C23_ConnectCreatesRecord ==
    (call.tool = "attach_moku" /\ result.status = "connected")
    => \E i \in 1..Len(registry) : registry[i].ip = connected_device

StateChangingTools == {"attach_moku", "release_moku", "push_config", "set_routing"}

\* C24: with the tool calls interleaving at their awaits, a call that is
\* suspended is never a state-changing one and has read nothing of handle,
\* target or cached config before its await; the part it runs after the await
\* leaves the three as they are. The accesses of every call to the session
\* therefore lie within one uninterrupted step, and no call runs between the
\* state check and the state update of another.
C24_NoOverlappingSessionAccess ==
    /\ \A k \in 1..Len(pending) :
         /\ pending[k].tool \notin StateChangingTools
         /\ pending[k].seen = None
    /\ call.tool = "resume" => (call.seen = None /\ SessionUnchanged)

\* a discovery suspended while Idle resumes after an attach and a push went
\* through in between
C24_Witness ==
    /\ call.tool = "resume"
    /\ call.invocation = "discover_mokus"
    /\ ~call.owned
    /\ pre.moku_instance # None /\ pre.last_config # None
    /\ result.count = 1
    /\ registry # <<>>

\* C25: an attach for another target never drops the connection, also through
\* MokuSession: when the attach made on entering the block was refused because
\* the server was Owned on another device, leaving the block leaves handle,
\* target and cached config as they were, so a server Owned before the exit is
\* Owned on the same device after it.
C25_RefusedSessionKeepsConnection ==
    (call.tool = "MokuSession.__aexit__" /\ call.refused /\ pre.moku_instance # None)
    => (SessionUnchanged /\ ~IsIdle)

\* C26: handle and target are set together in every reachable state: the
\* handle is present exactly when the target is, and the target is then the
\* network address the handle was opened on, an address literal or the address
\* of a registry record, never the name or the serial the caller passed.
C26_HandleAndTargetTogether ==
    /\ (moku_instance = None) <=> (connected_device = None)
    /\ moku_instance # None
       => /\ connected_device = moku_instance[1].ip
          /\ IsDottedNumericLiteral(connected_device)
          /\ \A d \in Devices : connected_device \notin {NameOf(d), SerialOf(d)}

\* an attach by the name of a discovered device is Owned on its address
C26_Witness ==
    /\ call.tool = "attach_moku"
    /\ call.device_id = NameOf(1)
    /\ result.status = "connected"
    /\ connected_device = IpOf(1)
    /\ moku_instance # None

\* C27: a cached config exists only while the session is Owned and was pushed
\* on the connection now owned: a release and a fresh connect both leave the
\* cache empty, a cache that changed was written by push_config or set_routing
\* on the handle held before and after, and a get_config answered from the
\* cache returns what was cached on this connection.
C27_CacheBelongsToConnection ==
    /\ last_config # None => moku_instance # None
    /\ call.tool = "release_moku" => last_config = None
    /\ (call.tool = "attach_moku" /\ result.status = "connected") => last_config = None
    /\ (last_config # None /\ last_config # pre.last_config)
       => /\ call.tool \in {"push_config", "set_routing"}
          /\ moku_instance = pre.moku_instance
    /\ (call.tool = "get_config" /\ pre.moku_instance # None /\ hwlog = <<>>)
       => /\ pre.last_config # None
          /\ result = model_dump(pre.last_config[1])

\* a release of a session that held a cached config
C27_Witness ==
    /\ call.tool = "release_moku"
    /\ pre.moku_instance # None
    /\ pre.last_config # None
    /\ Len(pre.last_config[1].slots) = 1
    /\ last_config = None
    /\ IsIdle

\* the operations that only query
QueryTools == {"discover_mokus", "get_config", "get_device_info", "list_slots"}

\* the SDK calls that change what runs in a slot or how signals are routed
MutationCalls == {"set_instrument", "write_register", "set_connections"}

\* C28: a query operation leaves the ownership session as it found it,
\* whatever its hardware calls did, and makes no slot or routing mutation call.
C28_QueriesLeaveSession ==
    call.tool \in QueryTools
    => /\ SessionUnchanged
       /\ \A i \in 1..Len(hwlog) : hwlog[i].call \notin MutationCalls

\* a get_config on an Owned session without a cached config that scanned the
\* slots, one of which raised
C28_Witness ==
    /\ call.tool = "get_config"
    /\ pre.moku_instance # None
    /\ pre.last_config = None
    /\ \E i \in 1..Len(hwlog) : hwlog[i].call = "get_instrument" /\ ~hwlog[i].ok
    /\ \E i \in 1..Len(hwlog) : hwlog[i].call = "get_instrument" /\ hwlog[i].ok
    /\ last_config = None

\* C29: every temporary connection a metadata query opened is relinquished
\* before the operation returns: in the calls of discover_mokus and of
\* get_device_info, each successful Moku() connect is followed by a
\* relinquish_ownership on the same address.
C29_TemporaryConnectionsRelinquished ==
    call.tool \in {"discover_mokus", "get_device_info"}
    => \A i \in 1..Len(hwlog) :
          (hwlog[i].call = "Moku" /\ hwlog[i].ok)
          => \E j \in (i + 1)..Len(hwlog) :
                /\ hwlog[j].call = "relinquish_ownership"
                /\ hwlog[j].ip = hwlog[i].ip
                /\ \A k \in (i + 1)..(j - 1) : hwlog[k].call # "Moku"

\* a set_routing call that did not configure the routing leaves the cached
\* config as it was
FailedRoutingKeepsCache ==
    (call'.tool = "set_routing" /\ result'.status # "configured")
    => last_config' = last_config

\* a get_config call comes right after a set_routing call that configured
RoutingThenGetConfig ==
    /\ call.tool = "set_routing"
    /\ result.status = "configured"
    /\ call'.tool = "get_config"

\* C30 as stated: the get_config that follows a successful set_routing(E)
\* returns routing E, with and without a cached config, and a failed
\* set_routing leaves the cached config unchanged.
C30_RoutingReadBack ==
    [][/\ FailedRoutingKeepsCache
       /\ RoutingThenGetConfig => result'.routing = call.connections.edges]_vars

\* C30 amended: the get_config that follows a successful set_routing(E)
\* returns routing E when a config is cached, and an empty routing when none
\* is; a failed set_routing leaves the cached config unchanged.
C30_RoutingReadBackWhenCached ==
    [][/\ FailedRoutingKeepsCache
       /\ RoutingThenGetConfig
          => /\ last_config # None => result'.routing = call.connections.edges
             /\ last_config = None => result'.routing = <<>>]_vars

\* a set_routing that replaced the routing of the cached config by its edges
C30_Witness ==
    /\ call.tool = "set_routing"
    /\ result.status = "configured"
    /\ call.connections.edges # <<>>
    /\ pre.last_config # None
    /\ pre.last_config[1].routing # call.connections.edges
    /\ last_config # None
    /\ last_config[1].routing = call.connections.edges

=============================================================================
